---- MODULE Spec2Model ----
(***************************************************************************)
(* A model of the ZerePy agent of this repository:                         *)
(*   - ZerePyAgent.loop                  (src/src/agent.py)                *)
(*   - BaseConnection._execute_with_retry (src/src/connections/base.py)    *)
(*   - OpenAIConnection / AnthropicConnection._manage_rate_limit           *)
(*                        (src/src/connections/{openai,anthropic})         *)
(*   - ConnectionManager.perform_action  (src/src/connection_manager.py)  *)
(*   - ConnectionManager.initialize_all  (src/src/connection_manager.py)  *)
(*   - the prompt of a reply             (src/src/agent.py)                *)
(*   - ConnectionManager.get_llm_provider (src/src/connection_manager.py) *)
(* Seven specifications share the module: Spec (the agent loop), RetrySpec *)
(* (the retry wrapper), RateSpec (the rate limiter), DispatchSpec          *)
(* (perform_action), InitializeSpec (initialize_all), PromptSpec (the      *)
(* prompt of a reply) and ProviderSpec (get_llm_provider).                 *)
(***************************************************************************)
EXTENDS Integers, Sequences, FiniteSets, TLC

VARIABLES
    \* ---- ZerePyAgent.loop ----
    pc,              \* position of the loop's control
    now,             \* time.time(), in seconds
    tasks,           \* self.tasks: sequence of [name, weight]
    loop_delay,      \* self.loop_delay
    tweet_interval,  \* self.tweet_interval
    last_tweet_time, \* local last_tweet_time
    current_time,    \* local current_time
    success,         \* local success
    action_name,     \* local action_name ("" before the draw of an iteration)
    tweet,           \* local tweet (the popped post)
    timeline_set,    \* "timeline_tweets" in self.state and it is not None
    timeline,        \* self.state["timeline_tweets"] when it is a list
    fetched,         \* number of posts the social network has handed out so far
    calls,           \* the perform_action / prompt_llm calls issued in this iteration
    last,            \* how the latest finished iteration ended
    interrupted,     \* where KeyboardInterrupt was raised ("" while it was not)
    \* ---- BaseConnection._execute_with_retry ----
    rpc,             \* per caller: position in _execute_with_retry
    retry_attempts,  \* self.config.retry_attempts
    retry_delay,     \* self.config.retry_delay
    attempt,         \* per caller: the for loop's attempt
    lock,            \* self._lock: 0 when free, else the caller holding it
    error_count,     \* self.state.error_count
    last_error,      \* self.state.last_error
    invoked,         \* per caller: outcomes of func in the current operation
    backoff,         \* per caller: the delays slept in the current operation
    outcome,         \* per caller: what the latest operation returned or raised
    ops,             \* number of operations started on the connection
    fails_since_ok,  \* failed attempts since the latest successful attempt
    \* ---- _manage_rate_limit ----
    mpc,             \* per caller: position in _manage_rate_limit
    clock,           \* datetime.now(), in ticks
    ticks,           \* number of times the clock has advanced
    rate_limit_rpm,  \* self.config.rate_limit_rpm
    rate_lock,       \* self._rate_limit_lock: 0 when free, else its holder
    request_count,   \* self._request_count
    last_request,    \* self._last_request_time (-1 for None)
    issued,          \* per caller: when it called _manage_rate_limit
    window,          \* per caller: _last_request_time it found on entry
    wake_at,         \* per caller: when its asyncio.sleep is over
    admitted,        \* log of the calls let through, in order
    \* ---- ConnectionManager.perform_action ----
    dpc,             \* position in perform_action
    connections,     \* self.connections: name -> [is_connected, client]
    has_actions,     \* the connection objects have an `actions` attribute
    request,         \* connection_name, action_name, params of the call
    kwargs,          \* local kwargs
    capability,      \* log of the calls of connection.perform_action
    returned,        \* what the call handed to its caller
    failed,          \* the check that ended the call (0: none)
    \* ---- ConnectionManager.initialize_all ----
    ipc,             \* position in initialize_all
    inits,           \* name -> how far conn.initialize() of that connection is
    init_success,    \* what initialize_all returned
    health,          \* name -> what health_check() returned inside initialize()
    \* ---- the prompt of a reply ----
    qpc,             \* position in the reply branch
    persona,         \* which of traits and examples the agent's config has
    incoming,        \* the post that is replied to
    system_prompt,   \* self._system_prompt
    prompts,         \* the prompts handed to prompt_llm so far
    \* ---- ConnectionManager.get_llm_provider ----
    gpc,             \* caller -> position in get_llm_provider
    llm_lock,        \* holder of the manager's _lock (0: free)
    llm_provider,    \* self._llm_provider ("None" or a connection name)
    healthy,         \* name -> what health_check() of the connection answers now
    epoch,           \* number of changes of the connections so far
    since,           \* caller -> epoch at which its call took the lock (0 outside)
    probed,          \* caller -> the failed health checks of its call so far
    provided         \* caller -> what its latest call returned

loopVars  == <<pc, now, tasks, loop_delay, tweet_interval, last_tweet_time,
               current_time, success, action_name, tweet, timeline_set,
               timeline, fetched, calls, last, interrupted>>
retryVars == <<rpc, retry_attempts, retry_delay, attempt, lock, error_count,
               last_error, invoked, backoff, outcome, ops, fails_since_ok>>
rateVars  == <<mpc, clock, ticks, rate_limit_rpm, rate_lock, request_count,
               last_request, issued, window, wake_at, admitted>>
dispatchVars == <<dpc, connections, has_actions, request, kwargs, capability,
                  returned, failed>>
initVars  == <<ipc, inits, init_success, health>>
promptVars == <<qpc, persona, incoming, system_prompt, prompts>>
providerVars == <<gpc, llm_lock, llm_provider, healthy, epoch, since, probed,
                  provided>>
vars      == <<loopVars, retryVars, rateVars, dispatchVars, initVars,
               promptVars, providerVars>>

Min(a, b) == IF a <= b THEN a ELSE b

(***************************************************************************)
(* Bounds of the model                                                     *)
(***************************************************************************)
StartTime == 1000   \* time.time() when loop() is entered
MaxTime   == 1160   \* the clock stops advancing at this horizon
MaxTweets == 3      \* posts the social network hands out in one run
MaxFetch  == 2      \* longest batch one read-timeline returns
MaxReplies == 2     \* longest list one get-tweet-replies returns
MaxAttempts == 3    \* largest retry_attempts configured
NumCallers == 2     \* coroutines calling into one connection
MaxOps == 2         \* operations started on one connection in one run
MaxRpm == 2         \* largest rate_limit_rpm configured
MaxCalls == 4       \* calls of _manage_rate_limit in one run
MaxTicks == 1       \* advances of the clock in one run
MaxParams == 2      \* longest params list handed to perform_action
MaxDispatch == 2    \* calls of perform_action in one run
MaxPrompts == 2     \* replies generated in one run
MaxLookups == 3     \* calls of get_llm_provider in one run
MaxChanges == 2     \* changes of health or connection state in one run
TicksPerSecond == 2 \* resolution of the clock

(***************************************************************************)
(* Configuration (the agent's JSON file)                                   *)
(***************************************************************************)
Task(n, w) == [name |-> n, weight |-> w]

TaskConfigs ==
    { <<Task("post-tweet", 1), Task("reply-to-tweet", 1),
        Task("like-tweet", 1), Task("post-image-tweet", 1)>>,
      <<Task("post-tweet", 0), Task("like-tweet", 2), Task("idle", 1)>>,
      <<Task("post-tweet", 0)>>,
      <<>> }

LoopDelays     == {30, 90}
TweetIntervals == {120}

FallbackDelay == 60
own_tweet_replies_count == 1
StartupDelay == 2 + 5 * 1

(***************************************************************************)
(* Posts.  n is the post's identity, hasId whether tweet.get('id') is      *)
(* truthy, own whether author_username equals the agent's username.        *)
(***************************************************************************)
NoTweet == [n |-> 0, hasId |-> FALSE, own |-> FALSE]

\* The kinds of post the loop tells apart: without an id it never looks at
\* the author.
Kinds == { <<TRUE, TRUE>>, <<TRUE, FALSE>>, <<FALSE, FALSE>> }

\* A batch of k fresh posts, numbered after the `from` already handed out.
Batches(from, k) ==
    { [i \in 1..k |-> [n |-> from + i, hasId |-> f[i][1], own |-> f[i][2]]] :
        f \in [1..k -> Kinds] }

Call(a, p) == [action |-> a, params |-> p]

\* A call that returned r.  The loop does not look at what post-tweet and
\* post-tweet-with-media return (lines 170-176, 287-294): the posted tweet,
\* or the None that perform_action returns for every failure.
Answered(a, p, r) == [action |-> a, params |-> p, result |-> r]

PostResults == {"tweet", "None"}

Called(a) == \E i \in 1..Len(calls) : calls[i].action = a

InLoop == pc \notin {"setup", "countdown", "stopped", "aborted"}

\* The clock after a sleep of d seconds.
After(d) == Min(now + d, MaxTime)

Ended(how, d) == [how |-> how, slept |-> d]

(***************************************************************************)
(* ZerePyAgent.loop, src/src/agent.py:117-312                              *)
(***************************************************************************)
LoopInit ==
    /\ pc = "setup"
    /\ now = StartTime
    /\ tasks \in TaskConfigs
    /\ loop_delay \in LoopDelays
    /\ tweet_interval \in TweetIntervals
    /\ last_tweet_time = 0
    /\ current_time = 0
    /\ success = FALSE
    /\ action_name = ""
    /\ tweet = NoTweet
    /\ timeline_set = FALSE
    /\ timeline = <<>>
    /\ fetched = 0
    /\ calls = <<>>
    /\ last = Ended("none", 0)
    /\ interrupted = ""

\* What no step of the loop changes: the configuration, the other components.
frame == <<tasks, loop_delay, tweet_interval, retryVars, rateVars,
           dispatchVars, initVars, promptVars, providerVars>>

\* `continue`: back to the head of `while True` with no sleep.
Continue ==
    /\ pc' = "top"
    /\ last' = Ended("continue", 0)
    /\ UNCHANGED <<now, interrupted>>

\* Control goes on to position p.
Goto(p) ==
    /\ pc' = p
    /\ UNCHANGED <<now, last, interrupted>>

\* The positions inside the try of the image tweet (lines 250-296).
ImageTry == {"img_prompt", "img_image", "img_text", "img_send"}

\* Catch without the iteration's `except Exception`.
Catch_NoIterationHandler(at, exc) ==
    CASE at \in {"setup", "countdown"} -> "aborted"
      [] exc = "KeyboardInterrupt"     -> "stopped"
      [] at \in ImageTry               -> "img_except"
      [] OTHER                         -> "aborted"

\* Catch with a bare `except:` around the image tweet.
Catch_BareExceptAroundImage(at, exc) ==
    CASE at \in {"setup", "countdown"} -> "aborted"
      [] at \in ImageTry               -> "img_except"
      [] exc = "KeyboardInterrupt"     -> "stopped"
      [] at = "handler"                -> "aborted"
      [] OTHER                         -> "handler"

\* Where an exception of class exc raised at position `at` is caught:
\* `except Exception` of the image tweet (line 297), `except Exception` of
\* the iteration (line 305), `except KeyboardInterrupt` (line 310), or
\* nowhere in loop().
Catch(at, exc) ==
    CASE at \in {"setup", "countdown"} -> "aborted"
      [] exc = "KeyboardInterrupt"     -> "stopped"
      [] at \in ImageTry               -> "img_except"
      [] at = "handler"                -> "aborted"
      [] OTHER                         -> "handler"

\* The step raises an Exception.
Raise ==
    /\ pc' = Catch(pc, "Exception")
    /\ UNCHANGED <<now, last, interrupted>>

\* The step is cut short by KeyboardInterrupt.
Stop ==
    /\ pc' = Catch(pc, "KeyboardInterrupt")
    /\ interrupted' = pc
    /\ UNCHANGED <<now, last>>

\* lines 119-120: _setup_llm_provider() before the try blocks.
Setup ==
    /\ pc = "setup"
    /\ \/ Goto("countdown")
       \/ Raise
       \/ Stop
    /\ UNCHANGED <<frame, last_tweet_time, current_time, success,
                   action_name, tweet, timeline_set, timeline, fetched,
                   calls>>

\* lines 126-132: the countdown sleeps, then last_tweet_time = 0.
Countdown ==
    /\ pc = "countdown"
    /\ \/ /\ pc' = "top"
          /\ now' = After(StartupDelay)
          /\ UNCHANGED <<last, interrupted>>
       \/ Stop
    /\ last_tweet_time' = 0
    /\ UNCHANGED <<frame, current_time, success, action_name, tweet,
                   timeline_set, timeline, fetched, calls>>

\* The head of an iteration that goes to the draw at once.
IterStart_SkipsCheck ==
    /\ pc = "top"
    /\ pc' = "choose"
    /\ success' = FALSE
    /\ action_name' = ""
    /\ calls' = <<>>
    /\ current_time' = 0
    /\ tweet' = NoTweet
    /\ UNCHANGED <<now, frame, last_tweet_time, timeline_set, timeline,
                   fetched, last, interrupted>>

\* lines 135-136: the head of an iteration.  The locals current_time and
\* tweet are assigned again before any use; the model clears them here.
IterStart ==
    /\ pc = "top"
    /\ pc' = "replenish"
    /\ success' = FALSE
    /\ action_name' = ""
    /\ calls' = <<>>
    /\ current_time' = 0
    /\ tweet' = NoTweet
    /\ UNCHANGED <<now, frame, last_tweet_time, timeline_set, timeline,
                   fetched, last, interrupted>>

\* The test of line 140 without its `or len(...) == 0`.
NeedsReplenish_OnlyAbsent == ~timeline_set

\* line 140: the buffer is absent, None or empty
NeedsReplenish == ~timeline_set \/ Len(timeline) = 0

\* lines 140-146: read-timeline when the buffer is absent, None or empty.
Replenish ==
    /\ pc = "replenish"
    /\ IF NeedsReplenish
       THEN /\ calls' = Append(calls, Call("read-timeline", <<>>))
            /\ \/ \E k \in 0..Min(MaxFetch, MaxTweets - fetched) :
                  \E b \in Batches(fetched, k) :
                     /\ timeline' = b
                     /\ timeline_set' = TRUE
                     /\ fetched' = fetched + k
                     /\ Goto("choose")
               \/ /\ timeline' = <<>>
                  /\ timeline_set' = FALSE
                  /\ fetched' = fetched
                  /\ Goto("choose")
               \/ /\ UNCHANGED <<timeline, timeline_set, fetched>>
                  /\ Raise
               \/ /\ UNCHANGED <<timeline, timeline_set, fetched>>
                  /\ Stop
       ELSE /\ Goto("choose")
            /\ UNCHANGED <<calls, timeline, timeline_set, fetched>>
    /\ UNCHANGED <<frame, last_tweet_time, current_time, success,
                   action_name, tweet>>

RECURSIVE TotalWeight(_)
TotalWeight(ts) ==
    IF ts = <<>> THEN 0 ELSE ts[1].weight + TotalWeight(Tail(ts))

\* random.choice(self.tasks): the draw without the weights.
Choices_IgnoresWeights(ts) == 1..Len(ts)

\* random.choices(self.tasks, weights=self.task_weights, k=1)[0]
Choices(ts) ==
    IF Len(ts) = 0 \/ TotalWeight(ts) <= 0
    THEN {}
    ELSE { i \in 1..Len(ts) : ts[i].weight > 0 }

Branch(name) ==
    CASE name = "post-tweet"       -> "post_gate"
      [] name = "reply-to-tweet"   -> "reply"
      [] name = "like-tweet"       -> "like"
      [] name = "post-image-tweet" -> "img_gate"
      [] OTHER                     -> "cooldown"

\* lines 150-151: the draw; it raises on an empty list or a zero total.
Choose ==
    /\ pc = "choose"
    /\ IF Choices(tasks) = {}
       THEN /\ Raise
            /\ UNCHANGED action_name
       ELSE \E i \in Choices(tasks) :
               /\ action_name' = tasks[i].name
               /\ Goto(Branch(tasks[i].name))
    /\ UNCHANGED <<frame, last_tweet_time, current_time, success, tweet,
                   timeline_set, timeline, fetched, calls>>

\* The gate without the subtraction of last_tweet_time.
Eligible_NoSubtraction(t) == t >= tweet_interval

\* current_time - last_tweet_time >= self.tweet_interval (lines 157, 246)
Eligible(t) == t - last_tweet_time >= tweet_interval

\* The gate of post-tweet without `continue`: it falls through to the sleep,
\* as the gate of post-image-tweet does.
PostGate_FallsThrough ==
    /\ pc = "post_gate"
    /\ current_time' = now
    /\ Goto(IF now - last_tweet_time >= tweet_interval
            THEN "post_gen" ELSE "cooldown")
    /\ UNCHANGED <<frame, last_tweet_time, success, action_name, tweet,
                   timeline_set, timeline, fetched, calls>>

\* lines 154-157, 178-181: the interval gate of post-tweet.
PostGate ==
    /\ pc = "post_gate"
    /\ current_time' = now
    /\ IF Eligible(now)
       THEN /\ Goto("post_gen")
       ELSE Continue
    /\ UNCHANGED <<frame, last_tweet_time, success, action_name, tweet,
                   timeline_set, timeline, fetched, calls>>

\* line 165: tweet_text = self.prompt_llm(tweet_prompt)
PostGenerate ==
    /\ pc = "post_gen"
    /\ calls' = Append(calls, Call("generate-text", <<"tweet_prompt">>))
    /\ \/ /\ Goto("post_send")
       \/ /\ Goto("cooldown")
       \/ Raise
       \/ Stop
    /\ UNCHANGED <<frame, last_tweet_time, current_time, success,
                   action_name, tweet, timeline_set, timeline, fetched>>

\* lines 170-177: post the tweet, then last_tweet_time = current_time.
PostSend ==
    /\ pc = "post_send"
    /\ \/ /\ \E r \in PostResults :
                calls' = Append(calls, Answered("post-tweet", <<"tweet_text">>, r))
          /\ Goto("cooldown")
          /\ last_tweet_time' = current_time
          /\ success' = TRUE
       \/ /\ calls' = Append(calls, Call("post-tweet", <<"tweet_text">>))
          /\ Raise
          /\ UNCHANGED <<last_tweet_time, success>>
       \/ /\ calls' = Append(calls, Call("post-tweet", <<"tweet_text">>))
          /\ Stop
          /\ UNCHANGED <<last_tweet_time, success>>
    /\ UNCHANGED <<frame, current_time, action_name, tweet, timeline_set,
                   timeline, fetched>>

\* The buffer holds a post to take (lines 184, 227).
HasBuffered == timeline_set /\ Len(timeline) > 0

\* First n elements of a list: replies[:n]
Prefix(s, n) == SubSeq(s, 1, Min(n, Len(s)))

\* lines 183-189, 191-193: take the front post for a reply.
Reply ==
    /\ pc = "reply"
    /\ IF HasBuffered
       THEN /\ tweet' = Head(timeline)
            /\ timeline' = Tail(timeline)
            /\ IF ~Head(timeline).hasId
               THEN Continue
               ELSE Goto(IF Head(timeline).own THEN "reply_own"
                                                  ELSE "reply_gen")
       ELSE /\ Goto("cooldown")
            /\ UNCHANGED <<tweet, timeline>>
    /\ UNCHANGED <<frame, last_tweet_time, current_time, success,
                   action_name, timeline_set, fetched, calls>>

\* lines 193-202: the popped post is the agent's own.
ReplyOwn ==
    /\ pc = "reply_own"
    /\ calls' = Append(calls, Call("get-tweet-replies", <<"tweet.author_id">>))
    /\ \/ \E k \in 0..Min(MaxReplies, MaxTweets - fetched) :
          \E replies \in Batches(fetched, k) :
             /\ timeline' = timeline \o Prefix(replies, own_tweet_replies_count)
             /\ fetched' = fetched + k
             /\ Continue
       \/ /\ UNCHANGED <<timeline, fetched>>
          /\ Raise
       \/ /\ UNCHANGED <<timeline, fetched>>
          /\ Stop
    /\ UNCHANGED <<frame, last_tweet_time, current_time, success,
                   action_name, tweet, timeline_set>>

\* lines 204-214: reply_text = self.prompt_llm(base_prompt, system_prompt)
ReplyGenerate ==
    /\ pc = "reply_gen"
    /\ calls' = Append(calls, Call("generate-text",
                                   <<"base_prompt", "system_prompt">>))
    /\ \/ /\ Goto("reply_send")
       \/ /\ Goto("cooldown")
       \/ Raise
       \/ Stop
    /\ UNCHANGED <<frame, last_tweet_time, current_time, success,
                   action_name, tweet, timeline_set, timeline, fetched>>

\* The reply followed by a like of the same post in the same iteration.
ReplySend_AlsoLikes ==
    /\ pc = "reply_send"
    /\ calls' = Append(calls, Call("reply-to-tweet",
                                   <<"tweet_id", "reply_text">>))
    /\ \/ /\ Goto("like_send")
          /\ success' = TRUE
       \/ /\ Raise
          /\ UNCHANGED success
       \/ /\ Stop
          /\ UNCHANGED success
    /\ UNCHANGED <<frame, last_tweet_time, current_time, action_name,
                   tweet, timeline_set, timeline, fetched>>

\* lines 216-224: post the reply.
ReplySend ==
    /\ pc = "reply_send"
    /\ calls' = Append(calls, Call("reply-to-tweet",
                                   <<"tweet_id", "reply_text">>))
    /\ \/ /\ Goto("cooldown")
          /\ success' = TRUE
       \/ /\ Raise
          /\ UNCHANGED success
       \/ /\ Stop
          /\ UNCHANGED success
    /\ UNCHANGED <<frame, last_tweet_time, current_time, action_name,
                   tweet, timeline_set, timeline, fetched>>

\* The like with pop() in place of pop(0): it takes the newest post.
Like_PopsLast ==
    /\ pc = "like"
    /\ IF HasBuffered
       THEN /\ tweet' = timeline[Len(timeline)]
            /\ timeline' = SubSeq(timeline, 1, Len(timeline) - 1)
            /\ IF ~timeline[Len(timeline)].hasId
               THEN Continue
               ELSE /\ Goto("like_send")
       ELSE /\ Goto("cooldown")
            /\ UNCHANGED <<tweet, timeline>>
    /\ UNCHANGED <<frame, last_tweet_time, current_time, success,
                   action_name, timeline_set, fetched, calls>>

\* lines 226-232: take the front post for a like.
Like ==
    /\ pc = "like"
    /\ IF HasBuffered
       THEN /\ tweet' = Head(timeline)
            /\ timeline' = Tail(timeline)
            /\ IF ~Head(timeline).hasId
               THEN Continue
               ELSE /\ Goto("like_send")
       ELSE /\ Goto("cooldown")
            /\ UNCHANGED <<tweet, timeline>>
    /\ UNCHANGED <<frame, last_tweet_time, current_time, success,
                   action_name, timeline_set, fetched, calls>>

\* lines 234-242: like the post.
LikeSend ==
    /\ pc = "like_send"
    /\ calls' = Append(calls, Call("like-tweet", <<"tweet_id">>))
    /\ \/ /\ Goto("cooldown")
          /\ success' = TRUE
       \/ /\ Raise
          /\ UNCHANGED success
       \/ /\ Stop
          /\ UNCHANGED success
    /\ UNCHANGED <<frame, last_tweet_time, current_time, action_name,
                   tweet, timeline_set, timeline, fetched>>

\* lines 244-246: the interval gate of post-image-tweet (it has no else).
ImgGate ==
    /\ pc = "img_gate"
    /\ current_time' = now
    /\ Goto(IF Eligible(now) THEN "img_prompt" ELSE "cooldown")
    /\ UNCHANGED <<frame, last_tweet_time, success, action_name, tweet,
                   timeline_set, timeline, fetched, calls>>

\* One step of the image chain before the post (lines 257-279): a truthy
\* result goes on, a falsy one ends the chain.
ImgStep(at, action, param, next) ==
    /\ pc = at
    /\ calls' = Append(calls, Call(action, <<param>>))
    /\ \/ Goto(next)
       \/ Goto("cooldown")
       \/ Raise
       \/ Stop
    /\ UNCHANGED <<frame, last_tweet_time, current_time, success,
                   action_name, tweet, timeline_set, timeline, fetched>>

ImgPrompt == ImgStep("img_prompt", "generate-text", "prompt", "img_image")

\* The image step going straight to the post, without the tweet text.
ImgImage_SkipsText ==
    ImgStep("img_image", "generate-image", "image_prompt", "img_send")

ImgImage == ImgStep("img_image", "generate-image", "image_prompt", "img_text")

ImgText == ImgStep("img_text", "generate-text", "tweet_prompt", "img_send")

\* lines 282-295: post the tweet with the image.
ImgSend ==
    /\ pc = "img_send"
    /\ \/ /\ \E r \in PostResults :
                calls' = Append(calls, Answered("post-tweet-with-media",
                                                <<"tweet_text", "image_url">>, r))
          /\ Goto("cooldown")
          /\ last_tweet_time' = current_time
          /\ success' = TRUE
       \/ /\ calls' = Append(calls, Call("post-tweet-with-media",
                                         <<"tweet_text", "image_url">>))
          /\ Raise
          /\ UNCHANGED <<last_tweet_time, success>>
       \/ /\ calls' = Append(calls, Call("post-tweet-with-media",
                                         <<"tweet_text", "image_url">>))
          /\ Stop
          /\ UNCHANGED <<last_tweet_time, success>>
    /\ UNCHANGED <<frame, current_time, action_name, tweet, timeline_set,
                   timeline, fetched>>

\* lines 297-299: the image tweet raised: log the error, success = False.
ImgExcept ==
    /\ pc = "img_except"
    /\ Goto("cooldown")
    /\ success' = FALSE
    /\ UNCHANGED <<frame, last_tweet_time, current_time, action_name, tweet,
                   timeline_set, timeline, fetched, calls>>

\* line 303: time.sleep(self.loop_delay if success else 60)
CooldownDelay == IF success THEN loop_delay ELSE FallbackDelay

\* line 308: time.sleep(self.loop_delay)
HandlerDelay == loop_delay

\* lines 301-303: the sleep that ends an iteration without exception.
Cooldown ==
    /\ pc = "cooldown"
    /\ pc' = "top"
    /\ now' = After(CooldownDelay)
    /\ last' = Ended(IF success THEN "success" ELSE "nosuccess", CooldownDelay)
    /\ UNCHANGED <<interrupted, frame, last_tweet_time, current_time, success,
                   action_name, tweet, timeline_set, timeline, fetched, calls>>

\* lines 305-308: the iteration raised: log the error, sleep, loop again.
Handler ==
    /\ pc = "handler"
    /\ pc' = "top"
    /\ now' = After(HandlerDelay)
    /\ last' = Ended("raised", HandlerDelay)
    /\ UNCHANGED <<interrupted, frame, last_tweet_time, current_time, success,
                   action_name, tweet, timeline_set, timeline, fetched, calls>>

\* lines 134, 310-312: KeyboardInterrupt anywhere inside the outer try.
Interrupt ==
    /\ InLoop
    /\ Stop
    /\ UNCHANGED <<frame, last_tweet_time, current_time, success,
                   action_name, tweet, timeline_set, timeline, fetched, calls>>

RetryIdle ==
    /\ rpc = <<>> /\ retry_attempts = 0 /\ retry_delay = 0 /\ attempt = <<>>
    /\ lock = 0 /\ error_count = 0 /\ last_error = "" /\ invoked = <<>>
    /\ backoff = <<>> /\ outcome = <<>> /\ ops = 0 /\ fails_since_ok = 0

NoRequest == [connection_name |-> "", action_name |-> "", params |-> <<>>]

None == [kind |-> "return", value |-> "None"]

DispatchIdle ==
    /\ dpc = "" /\ connections = <<>> /\ has_actions = FALSE
    /\ request = NoRequest /\ kwargs = <<>> /\ capability = <<>>
    /\ returned = None /\ failed = 0

InitIdle ==
    ipc = "" /\ inits = <<>> /\ init_success = "None" /\ health = <<>>

NoPost == [text |-> "", intensity |-> 0]

ProviderIdle ==
    /\ gpc = <<>> /\ llm_lock = 0 /\ llm_provider = "None" /\ healthy = <<>>
    /\ epoch = 0 /\ since = <<>> /\ probed = <<>> /\ provided = <<>>

PromptIdle ==
    /\ qpc = "" /\ persona = <<>> /\ incoming = NoPost
    /\ system_prompt = <<>> /\ prompts = <<>>

RateIdle ==
    /\ mpc = <<>> /\ clock = 0 /\ ticks = 0 /\ rate_limit_rpm = 0
    /\ rate_lock = 0 /\ request_count = 0 /\ last_request = -1
    /\ issued = <<>> /\ window = <<>> /\ wake_at = <<>> /\ admitted = <<>>

LoopStep ==
    \/ Setup \/ Countdown \/ IterStart \/ Replenish \/ Choose
    \/ PostGate \/ PostGenerate \/ PostSend
    \/ Reply \/ ReplyOwn \/ ReplyGenerate \/ ReplySend
    \/ Like \/ LikeSend
    \/ ImgGate \/ ImgPrompt \/ ImgImage \/ ImgText \/ ImgSend \/ ImgExcept
    \/ Cooldown \/ Handler

Init ==
    LoopInit /\ RetryIdle /\ RateIdle /\ DispatchIdle /\ InitIdle /\ PromptIdle
    /\ ProviderIdle

Next ==
    \/ Setup \/ Countdown \/ IterStart \/ Replenish \/ Choose
    \/ PostGate \/ PostGenerate \/ PostSend
    \/ Reply \/ ReplyOwn \/ ReplyGenerate \/ ReplySend
    \/ Like \/ LikeSend
    \/ ImgGate \/ ImgPrompt \/ ImgImage \/ ImgText \/ ImgSend \/ ImgExcept
    \/ Cooldown \/ Handler
    \/ Interrupt

Spec == Init /\ [][Next]_vars

\* The interpreter runs the loop on; only the interrupt is up to the user.
FairSpec == Spec /\ WF_vars(LoopStep)

(***************************************************************************)
(* BaseConnection._execute_with_retry, src/src/connections/base.py:60-75   *)
(***************************************************************************)
Callers == 1..NumCallers

RetryDelays == {1, 3}

\* What func raises (str(e)) and what it returns.
\* "e1" is a failure of the network; TooLong is what _post_tweet_impl and
\* _reply_to_tweet_impl raise for a text of more than 280 characters.
TooLong  == "exceeds 280 character limit"
Messages == {"e1", TooLong}
Results  == {"r1"}

Failure(m) == [ok |-> FALSE, value |-> m]
Success(r) == [ok |-> TRUE, value |-> r]

LoopIdle ==
    /\ pc = "" /\ now = 0 /\ tasks = <<>> /\ loop_delay = 0
    /\ tweet_interval = 0 /\ last_tweet_time = 0 /\ current_time = 0
    /\ success = FALSE /\ action_name = "" /\ tweet = NoTweet
    /\ timeline_set = FALSE /\ timeline = <<>> /\ fetched = 0
    /\ calls = <<>> /\ last = Ended("none", 0) /\ interrupted = ""

RetryInit ==
    /\ rpc = [c \in Callers |-> "idle"]
    /\ retry_attempts \in 0..MaxAttempts
    /\ retry_delay \in RetryDelays
    /\ attempt = [c \in Callers |-> 0]
    /\ lock = 0
    /\ error_count = 0
    /\ last_error = "None"
    /\ invoked = [c \in Callers |-> <<>>]
    /\ backoff = [c \in Callers |-> <<>>]
    /\ outcome = [c \in Callers |-> [kind |-> "none", value |-> "None"]]
    /\ ops = 0
    /\ fails_since_ok = 0

retryCfg == <<retry_attempts, retry_delay, loopVars, rateVars, dispatchVars,
              initVars, promptVars, providerVars>>

\* `for attempt in range(self.config.retry_attempts)`: the body runs for a.
InRange(a) == a < retry_attempts

\* line 72: if attempt < self.config.retry_attempts - 1 (sleep, else raise)
MoreAttempts_OffByOne(a) == a < retry_attempts

MoreAttempts(a) == a < retry_attempts - 1

\* line 73: self.config.retry_delay * (attempt + 1)
BackoffDelay_ZeroBased(a) == retry_delay * a

BackoffDelay(a) == retry_delay * (a + 1)

\* The for loop is over without a return or a raise: the coroutine returns
\* None.
FellThrough == [kind |-> "returned", value |-> "None"]

\* A caller awaits _execute_with_retry(operation, func, ...).
Begin(c) ==
    /\ rpc[c] \in {"idle", "done"}
    /\ ops < MaxOps
    /\ ops' = ops + 1
    /\ attempt' = [attempt EXCEPT ![c] = 0]
    /\ invoked' = [invoked EXCEPT ![c] = <<>>]
    /\ backoff' = [backoff EXCEPT ![c] = <<>>]
    /\ IF InRange(0)
       THEN /\ rpc' = [rpc EXCEPT ![c] = "acquire"]
            /\ outcome' = [outcome EXCEPT
                             ![c] = [kind |-> "none", value |-> "None"]]
       ELSE /\ rpc' = [rpc EXCEPT ![c] = "done"]
            /\ outcome' = [outcome EXCEPT ![c] = FellThrough]
    /\ UNCHANGED <<retryCfg, lock, error_count, last_error, fails_since_ok>>

\* The attempt entered without waiting for the lock.
Acquire_NoWait(c) ==
    /\ rpc[c] = "acquire"
    /\ lock' = c
    /\ rpc' = [rpc EXCEPT ![c] = "call"]
    /\ UNCHANGED <<retryCfg, attempt, error_count, last_error, invoked,
                   backoff, outcome, ops, fails_since_ok>>

\* line 64: async with self._lock
Acquire(c) ==
    /\ rpc[c] = "acquire"
    /\ lock = 0
    /\ lock' = c
    /\ rpc' = [rpc EXCEPT ![c] = "call"]
    /\ UNCHANGED <<retryCfg, attempt, error_count, last_error, invoked,
                   backoff, outcome, ops, fails_since_ok>>

\* lines 65-67: func returned: reset error_count, release the lock, return.
CallReturns_NoReset(c) ==
    /\ rpc[c] = "call"
    /\ \E r \in Results :
          /\ invoked' = [invoked EXCEPT ![c] = Append(@, Success(r))]
          /\ outcome' = [outcome EXCEPT
                           ![c] = [kind |-> "returned", value |-> r]]
    /\ fails_since_ok' = 0
    /\ lock' = 0
    /\ rpc' = [rpc EXCEPT ![c] = "done"]
    /\ UNCHANGED <<retryCfg, attempt, backoff, ops, error_count, last_error>>

CallReturns(c) ==
    /\ rpc[c] = "call"
    /\ \E r \in Results :
          /\ invoked' = [invoked EXCEPT ![c] = Append(@, Success(r))]
          /\ outcome' = [outcome EXCEPT
                           ![c] = [kind |-> "returned", value |-> r]]
    /\ error_count' = 0
    /\ fails_since_ok' = 0
    /\ lock' = 0
    /\ rpc' = [rpc EXCEPT ![c] = "done"]
    /\ UNCHANGED <<retryCfg, attempt, backoff, ops, last_error>>

\* lines 68-75: func raised: the lock is released, the error is counted,
\* then either the backoff sleep starts or the exception is raised again.
CallRaises(c) ==
    /\ rpc[c] = "call"
    /\ \E m \in Messages :
          /\ invoked' = [invoked EXCEPT ![c] = Append(@, Failure(m))]
          /\ last_error' = m
          /\ IF MoreAttempts(attempt[c])
             THEN /\ rpc' = [rpc EXCEPT ![c] = "sleep"]
                  /\ backoff' = [backoff EXCEPT
                                   ![c] = Append(@, BackoffDelay(attempt[c]))]
                  /\ UNCHANGED outcome
             ELSE /\ rpc' = [rpc EXCEPT ![c] = "done"]
                  /\ outcome' = [outcome EXCEPT
                                   ![c] = [kind |-> "raised", value |-> m]]
                  /\ UNCHANGED backoff
    /\ error_count' = error_count + 1
    /\ fails_since_ok' = fails_since_ok + 1
    /\ lock' = 0
    /\ UNCHANGED <<retryCfg, attempt, ops>>

\* line 73 is over: the next round of the for loop, if there is one.
Wake(c) ==
    /\ rpc[c] = "sleep"
    /\ attempt' = [attempt EXCEPT ![c] = @ + 1]
    /\ IF InRange(attempt[c] + 1)
       THEN /\ rpc' = [rpc EXCEPT ![c] = "acquire"]
            /\ UNCHANGED outcome
       ELSE /\ rpc' = [rpc EXCEPT ![c] = "done"]
            /\ outcome' = [outcome EXCEPT ![c] = FellThrough]
    /\ UNCHANGED <<retryCfg, lock, error_count, last_error, invoked, backoff,
                   ops, fails_since_ok>>

RetryNext ==
    \E c \in Callers :
        \/ Begin(c)
        \/ Acquire(c)
        \/ CallReturns(c)
        \/ CallRaises(c)
        \/ Wake(c)

RetryStart ==
    LoopIdle /\ RetryInit /\ RateIdle /\ DispatchIdle /\ InitIdle /\ PromptIdle
    /\ ProviderIdle

RetrySpec == RetryStart /\ [][RetryNext]_vars

(***************************************************************************)
(* _manage_rate_limit, src/src/connections/openai/connection.py:91-109 and *)
(* src/src/connections/anthropic/connection.py:87-105 (the same code)      *)
(***************************************************************************)
WindowSeconds == 60
SecondsPerDay == 86400

\* The lengths by which the clock advances between two steps, in ticks.
Gaps == { 1, 60 * TicksPerSecond - 1, 60 * TicksPerSecond,
          SecondsPerDay * TicksPerSecond }

\* (a - b).seconds for datetimes a >= b: the whole seconds of the
\* difference, without its days.
Seconds(a, b) == ((a - b) \div TicksPerSecond) % SecondsPerDay

RateInit ==
    /\ mpc = [c \in Callers |-> "idle"]
    /\ clock = 0
    /\ ticks = 0
    /\ rate_limit_rpm \in 1..MaxRpm
    /\ rate_lock = 0
    /\ request_count = 0
    /\ last_request = -1
    /\ issued = [c \in Callers |-> 0]
    /\ window = [c \in Callers |-> -1]
    /\ wake_at = [c \in Callers |-> 0]
    /\ admitted = <<>>

rateCfg == <<rate_limit_rpm, loopVars, retryVars, dispatchVars, initVars,
             promptVars, providerVars>>

\* Time passes.
Tick ==
    /\ ticks < MaxTicks
    /\ ticks' = ticks + 1
    /\ \E d \in Gaps : clock' = clock + d
    /\ UNCHANGED <<rateCfg, mpc, rate_lock, request_count, last_request,
                   issued, window, wake_at, admitted>>

\* A caller awaits self._manage_rate_limit().
Issue(c) ==
    /\ mpc[c] = "idle"
    /\ Len(admitted) + Cardinality({d \in Callers : mpc[d] # "idle"}) < MaxCalls
    /\ mpc' = [mpc EXCEPT ![c] = "lock"]
    /\ issued' = [issued EXCEPT ![c] = clock]
    /\ UNCHANGED <<rateCfg, clock, ticks, rate_lock, request_count,
                   last_request, window, wake_at, admitted>>

\* line 93: async with self._rate_limit_lock can be entered
LockFree_NoMutex == TRUE

LockFree == rate_lock = 0

\* The window taken as over at every call.
MinutePassed_Always(cur) == TRUE

\* line 97: a minute has passed since _last_request_time
MinutePassed(cur) == Seconds(cur, last_request) >= WindowSeconds

\* line 101: the quota of the window is used up
QuotaReached == request_count >= rate_limit_rpm

\* line 102: wait_time, in seconds
WaitTime_OneShort(cur) == WindowSeconds - 1 - Seconds(cur, last_request)

WaitTime(cur) == WindowSeconds - Seconds(cur, last_request)

Admission(c, w, s) == [issued |-> issued[c], window |-> w, at |-> clock,
                       start |-> s]

\* lines 93-99, 106-109: the lock is taken and the call is let through at
\* once: first call, window rolled over, or quota not reached.
Admit(c) ==
    /\ mpc[c] = "lock"
    /\ LockFree
    /\ \/ /\ last_request = -1
          /\ last_request' = clock
          /\ request_count' = request_count + 1
       \/ /\ last_request # -1
          /\ MinutePassed(clock)
          /\ last_request' = clock
          /\ request_count' = 0 + 1
       \/ /\ last_request # -1
          /\ ~MinutePassed(clock)
          /\ ~QuotaReached
          /\ last_request' = last_request
          /\ request_count' = request_count + 1
    /\ admitted' = Append(admitted, Admission(c, last_request, last_request'))
    /\ mpc' = [mpc EXCEPT ![c] = "idle"]
    /\ issued' = [issued EXCEPT ![c] = 0]
    /\ UNCHANGED <<rateCfg, clock, ticks, rate_lock, window, wake_at>>

\* lines 93-103: the lock is taken, the quota is reached: sleep wait_time
\* holding the lock.
Block(c) ==
    /\ mpc[c] = "lock"
    /\ LockFree
    /\ last_request # -1
    /\ ~MinutePassed(clock)
    /\ QuotaReached
    /\ rate_lock' = c
    /\ window' = [window EXCEPT ![c] = last_request]
    /\ wake_at' = [wake_at EXCEPT ![c] = clock + WaitTime(clock) * TicksPerSecond]
    /\ mpc' = [mpc EXCEPT ![c] = "sleep"]
    /\ UNCHANGED <<rateCfg, clock, ticks, request_count, last_request, issued,
                   admitted>>

\* lines 104-109: the sleep is over: a new window starts now, the call is
\* counted in it and the lock is released.
Unblock(c) ==
    /\ mpc[c] = "sleep"
    /\ clock >= wake_at[c]
    /\ request_count' = 0 + 1
    /\ last_request' = clock
    /\ admitted' = Append(admitted, Admission(c, window[c], last_request'))
    /\ rate_lock' = 0
    /\ mpc' = [mpc EXCEPT ![c] = "idle"]
    /\ issued' = [issued EXCEPT ![c] = 0]
    /\ window' = [window EXCEPT ![c] = -1]
    /\ wake_at' = [wake_at EXCEPT ![c] = 0]
    /\ UNCHANGED <<rateCfg, clock, ticks>>

\* The sleep of a blocked caller ends exactly on time.
SleepEnds(c) ==
    /\ mpc[c] = "sleep"
    /\ clock < wake_at[c]
    /\ clock' = wake_at[c]
    /\ UNCHANGED <<rateCfg, mpc, ticks, rate_lock, request_count,
                   last_request, issued, window, wake_at, admitted>>

RateNext ==
    \/ Tick
    \/ \E c \in Callers :
          \/ Issue(c)
          \/ Admit(c)
          \/ Block(c)
          \/ Unblock(c)
          \/ SleepEnds(c)

RateStart ==
    LoopIdle /\ RetryIdle /\ RateInit /\ DispatchIdle /\ InitIdle /\ PromptIdle
    /\ ProviderIdle

RateSpec == RateStart /\ [][RateNext]_vars

(***************************************************************************)
(* ConnectionManager.perform_action, src/src/connection_manager.py:114-150 *)
(***************************************************************************)
\* CONNECTION_TYPES (lines 13-17) and a name that is not among them.
ConnectionNames == {"twitter", "openai"}
RequestedNames  == ConnectionNames \cup {"discord"}

Parameter(n, r) == [name |-> n, required |-> r]

\* connection.actions: action name -> its parameters, in order.
Registry(name) ==
    IF name = "twitter"
    THEN [a \in {"post-tweet", "read-timeline", "reply-to-tweet"} |->
            CASE a = "post-tweet"     -> <<Parameter("message", TRUE)>>
              [] a = "read-timeline"  -> <<Parameter("count", FALSE)>>
              [] a = "reply-to-tweet" -> <<Parameter("tweet_id", TRUE),
                                           Parameter("message", TRUE)>>]
    ELSE [a \in {"generate-text"} |->
            <<Parameter("prompt", TRUE), Parameter("system_prompt", FALSE)>>]

RequestedActions == {"post-tweet", "read-timeline", "reply-to-tweet",
                     "generate-text", "follow"}

ParamValues == {"p1", "p2"}

ParamLists == UNION { [1..k -> ParamValues] : k \in 0..MaxParams }

\* What the capability hands back.
CapabilityValues == {"r1", "None"}

Return(v) == [kind |-> "return", value |-> v]

\* A connection after __init__: state.is_connected is False (base.py:19)
\* and self._client is None.
NotInitialized == [is_connected |-> FALSE, client |-> FALSE]

DispatchInit ==
    /\ dpc = "idle"
    /\ connections \in { [n \in N |-> NotInitialized] :
                           N \in {ConnectionNames, {"twitter"}} }
    /\ has_actions \in BOOLEAN
    /\ request = NoRequest
    /\ kwargs = <<>>
    /\ capability = <<>>
    /\ returned = None
    /\ failed = 0

dispatchCfg == <<has_actions, loopVars, retryVars, rateVars, initVars,
                 promptVars, providerVars>>

\* initialize() of a connection succeeds: state.is_connected = True.
Connect(n) ==
    /\ dpc = "idle"
    /\ n \in DOMAIN connections
    /\ ~connections[n].is_connected
    /\ connections' = [connections EXCEPT ![n] =
                           [is_connected |-> TRUE, client |-> TRUE]]
    /\ UNCHANGED <<dispatchCfg, dpc, request, kwargs, capability, returned,
                   failed>>

\* shutdown() that clears the client and leaves the flag as it is.
Disconnect_KeepsFlag(n) ==
    /\ dpc = "idle"
    /\ n \in DOMAIN connections
    /\ connections[n].client
    /\ connections' = [connections EXCEPT ![n].client = FALSE]
    /\ UNCHANGED <<dispatchCfg, dpc, request, kwargs, capability, returned,
                   failed>>

\* shutdown() of a connection: self._client = None and
\* state.is_connected = False.
Disconnect(n) ==
    /\ dpc = "idle"
    /\ n \in DOMAIN connections
    /\ connections[n].is_connected
    /\ connections' = [connections EXCEPT ![n] = NotInitialized]
    /\ UNCHANGED <<dispatchCfg, dpc, request, kwargs, capability, returned,
                   failed>>

\* line 133: required_params = [p for p in action.parameters if p.required]
RECURSIVE RequiredParams(_)
RequiredParams(ps) ==
    IF ps = <<>> THEN <<>>
    ELSE IF ps[1].required
         THEN <<ps[1]>> \o RequiredParams(Tail(ps))
         ELSE RequiredParams(Tail(ps))

\* Every declared parameter bound, the optional ones included.
Kwargs_BindsOptional(required, params) ==
    [n \in {required[i].name : i \in 1..Len(required)} |->
        params[CHOOSE i \in 1..Len(required) : required[i].name = n]]
    @@ (IF Len(params) > Len(required)
        THEN [n \in {"extra"} |-> params[Len(required) + 1]]
        ELSE <<>>)

\* lines 142-144: kwargs[param.name] = params[i]
Kwargs(required, params) ==
    [n \in {required[i].name : i \in 1..Len(required)} |->
        params[CHOOSE i \in 1..Len(required) : required[i].name = n]]

\* line 120, get_connection: the name is a key of self.connections
Known(r) == r.connection_name \in DOMAIN connections

\* line 122 without its `not`
Connected_Ignored(r) == TRUE

\* line 122: connection.state.is_connected
Connected(r) == connections[r.connection_name].is_connected

\* line 126: action_name in connection.actions; without the attribute the
\* lookup raises AttributeError, which line 148 catches.
Registered(r) ==
    /\ has_actions
    /\ r.action_name \in DOMAIN Registry(r.connection_name)

\* line 134: len(params) >= len(required_params)
Supplied(r) ==
    Len(r.params) >=
        Len(RequiredParams(Registry(r.connection_name)[r.action_name]))

\* The first of the four checks that the request does not pass (0: none).
FailedCheck(r) ==
    CASE ~Known(r)      -> 1
      [] ~Connected(r)  -> 2
      [] ~Registered(r) -> 3
      [] ~Supplied(r)   -> 4
      [] OTHER          -> 0

\* The call with a validation that writes: a request short of params marks
\* its connection as not connected.
Dispatch_ValidationWrites ==
    /\ dpc = "idle"
    /\ Len(capability) < MaxDispatch
    /\ \E c \in RequestedNames, a \in RequestedActions, ps \in ParamLists :
          LET r == [connection_name |-> c, action_name |-> a, params |-> ps]
          IN  /\ request' = r
              /\ failed' = FailedCheck(r)
              /\ connections' = IF FailedCheck(r) = 4
                                THEN [connections EXCEPT
                                         ![c].is_connected = FALSE]
                                ELSE connections
              /\ IF FailedCheck(r) = 0
                 THEN /\ kwargs' = Kwargs(RequiredParams(Registry(c)[a]), ps)
                      /\ capability' = Append(capability,
                            [connection |-> c, action |-> a, kwargs |-> kwargs'])
                      /\ dpc' = "awaiting"
                      /\ returned' = returned
                 ELSE /\ kwargs' = <<>>
                      /\ capability' = capability
                      /\ dpc' = "done"
                      /\ returned' = None
    /\ UNCHANGED dispatchCfg

\* lines 119-146: the call, up to its return None or to the await of
\* connection.perform_action(action_name, kwargs).
Dispatch ==
    /\ dpc = "idle"
    /\ Len(capability) < MaxDispatch
    /\ \E c \in RequestedNames, a \in RequestedActions, ps \in ParamLists :
          LET r == [connection_name |-> c, action_name |-> a, params |-> ps]
          IN  /\ request' = r
              /\ failed' = FailedCheck(r)
              /\ IF FailedCheck(r) = 0
                 THEN /\ kwargs' = Kwargs(RequiredParams(Registry(c)[a]), ps)
                      /\ capability' = Append(capability,
                            [connection |-> c, action |-> a, kwargs |-> kwargs'])
                      /\ dpc' = "awaiting"
                      /\ returned' = returned
                 ELSE /\ kwargs' = <<>>
                      /\ capability' = capability
                      /\ dpc' = "done"
                      /\ returned' = None
    /\ UNCHANGED <<dispatchCfg, connections>>

\* The value of the capability turned into a flag.
PassThrough_Truthiness(v) == IF v = "None" THEN "False" ELSE "True"

\* line 146: return await ...: the value as it is
PassThrough(v) == v

\* line 146: the capability returns.
CapabilityReturns ==
    /\ dpc = "awaiting"
    /\ \E v \in CapabilityValues :
          /\ capability' = [capability EXCEPT ![Len(capability)] =
                                @ @@ [outcome |-> Return(v)]]
          /\ returned' = Return(PassThrough(v))
    /\ dpc' = "done"
    /\ UNCHANGED <<dispatchCfg, connections, request, kwargs, failed>>

\* lines 146-150: the capability raises; except Exception returns None.
CapabilityRaises ==
    /\ dpc = "awaiting"
    /\ capability' = [capability EXCEPT ![Len(capability)] =
                          @ @@ [outcome |-> [kind |-> "raise", value |-> "e1"]]]
    /\ returned' = None
    /\ dpc' = "done"
    /\ UNCHANGED <<dispatchCfg, connections, request, kwargs, failed>>

\* The caller has its answer and the call's frame is gone; the manager is
\* ready for the next call.
Resume ==
    /\ dpc = "done"
    /\ dpc' = "idle"
    /\ request' = NoRequest
    /\ kwargs' = <<>>
    /\ returned' = None
    /\ failed' = 0
    /\ UNCHANGED <<dispatchCfg, connections, capability>>

DispatchNext ==
    \/ \E n \in ConnectionNames : Connect(n) \/ Disconnect(n)
    \/ Dispatch
    \/ CapabilityReturns
    \/ CapabilityRaises
    \/ Resume

DispatchStart ==
    LoopIdle /\ RetryIdle /\ RateIdle /\ DispatchInit /\ InitIdle /\ PromptIdle
    /\ ProviderIdle

DispatchSpec == DispatchStart /\ [][DispatchNext]_vars

(***************************************************************************)
(* ConnectionManager.initialize_all, src/src/connection_manager.py:44-66   *)
(***************************************************************************)
\* The keys of CONNECTION_TYPES (lines 13-17).
ConnectionTypes == {"twitter", "openai", "anthropic"}

\* How conn.initialize() can end: it returns True after setting
\* state.is_connected, it returns False, or it raises.
InitOutcomes == {"True", "False", "raised"}

\* The manager after __init__ over a list of configs: no connection is
\* connected yet.
InitializeInit ==
    /\ connections \in { [n \in N |-> NotInitialized] :
                           N \in SUBSET ConnectionTypes }
    /\ ipc = "idle"
    /\ inits = [n \in DOMAIN connections |-> "pending"]
    /\ health = [n \in DOMAIN connections |-> "None"]
    /\ init_success = "None"
    /\ dpc = "" /\ has_actions = FALSE /\ request = NoRequest
    /\ kwargs = <<>> /\ capability = <<>> /\ returned = None /\ failed = 0

initCfg == <<loopVars, retryVars, rateVars, dpc, has_actions, request, kwargs,
             capability, returned, failed, promptVars, providerVars>>

\* lines 47-50: asyncio.gather over conn.initialize() of every connection:
\* all of them are scheduled at once.
Gather ==
    /\ ipc = "idle"
    /\ ipc' = "gathering"
    /\ inits' = [n \in DOMAIN inits |-> "running"]
    /\ UNCHANGED <<initCfg, connections, init_success, health>>

\* What health_check() hands back: it catches every Exception of the
\* probe and returns False then.
HealthResults == {"True", "False"}

\* initialize() of n has built its client and awaits health_check(); the
\* value that comes back is not bound to anything.
InitializeStep(n) ==
    /\ n \in DOMAIN inits
    /\ inits[n] = "running"
    /\ inits' = [inits EXCEPT ![n] = "verifying"]
    /\ connections' = [connections EXCEPT ![n].client = TRUE]
    /\ \E h \in HealthResults : health' = [health EXCEPT ![n] = h]
    /\ UNCHANGED <<initCfg, ipc, init_success>>

\* How initialize() of n can end from where it is: before the health check
\* an Exception makes it return False; after it, is_connected is set and
\* True returned; anything that is not an Exception leaves it as raised.
Completion(n) ==
    IF inits[n] = "running" THEN {"False", "raised"} ELSE {"True", "raised"}

\* initialize() of n ends.
InitializeEnds(n) ==
    /\ n \in DOMAIN inits
    /\ inits[n] \in {"running", "verifying"}
    /\ \E o \in Completion(n) :
          /\ inits' = [inits EXCEPT ![n] = o]
          /\ connections' = IF o = "True"
                            THEN [connections EXCEPT ![n].is_connected = TRUE]
                            ELSE connections
    /\ UNCHANGED <<initCfg, ipc, init_success, health>>

\* any(...) in place of all(...)
AllSucceeded_Any == \E n \in DOMAIN inits : inits[n] = "True"

\* lines 52-55: all(isinstance(r, bool) and r for r in results)
AllSucceeded == \A n \in DOMAIN inits : inits[n] = "True"

\* lines 47-62: gather is over when every initialize() has ended, raised
\* ones included (return_exceptions=True); the result is returned.
Join ==
    /\ ipc = "gathering"
    /\ \A n \in DOMAIN inits : inits[n] \in InitOutcomes
    /\ init_success' = IF AllSucceeded THEN "True" ELSE "False"
    /\ ipc' = "done"
    /\ UNCHANGED <<initCfg, connections, inits, health>>

InitializeNext ==
    \/ Gather
    \/ \E n \in ConnectionTypes : InitializeStep(n) \/ InitializeEnds(n)
    \/ Join

InitializeStart ==
    LoopIdle /\ RetryIdle /\ RateIdle /\ InitializeInit /\ PromptIdle
    /\ ProviderIdle

InitializeSpec == InitializeStart /\ [][InitializeNext]_vars

(***************************************************************************)
(* The prompt of a reply, src/src/agent.py:74-90 and 204-214               *)
(***************************************************************************)
\* The texts of the posts replied to.
Texts == {"x1", "x2"}

\* How hostile a text is, in tenths: 0 is a neutral text, 10 the most
\* hostile one.  The code reads tweet.get('text') and nothing else of it.
Intensities == 0..10

Personas == [traits : BOOLEAN, examples : BOOLEAN]

PromptInit ==
    /\ qpc = "idle"
    /\ persona \in Personas
    /\ incoming = NoPost
    /\ system_prompt = <<>>
    /\ prompts = <<>>

promptCfg == <<persona, loopVars, retryVars, rateVars, dispatchVars, initVars,
               providerVars>>

\* line 186: the post popped from the buffer.
Incoming ==
    /\ qpc = "idle"
    /\ Len(prompts) < MaxPrompts
    /\ \E x \in Texts, i \in Intensities :
          incoming' = [text |-> x, intensity |-> i]
    /\ qpc' = "base_prompt"
    /\ UNCHANGED <<promptCfg, system_prompt, prompts>>

\* lines 77-88: bio, then traits and examples where the config has them.
PromptParts ==
    <<"bio">> \o (IF persona.traits THEN <<"traits">> ELSE <<>>)
              \o (IF persona.examples THEN <<"examples">> ELSE <<>>)

\* lines 207-211: the one template of the reply branch, filled with the text.
BasePrompt(post) == [template |-> "chaotic reply", text |-> post.text]

\* lines 213, 74-90: _construct_system_prompt builds the prompt once and
\* returns the stored one afterwards.
ConstructSystemPrompt ==
    /\ qpc = "base_prompt"
    /\ system_prompt' = IF system_prompt = <<>> THEN PromptParts
                        ELSE system_prompt
    /\ qpc' = "prompt_llm"
    /\ UNCHANGED <<promptCfg, incoming, prompts>>

\* line 214: prompt_llm(prompt=base_prompt, system_prompt=system_prompt)
PromptLlm ==
    /\ qpc = "prompt_llm"
    /\ prompts' = Append(prompts, [post          |-> incoming,
                                   prompt        |-> BasePrompt(incoming),
                                   system_prompt |-> system_prompt])
    /\ qpc' = "idle"
    /\ UNCHANGED <<promptCfg, incoming, system_prompt>>

PromptNext == Incoming \/ ConstructSystemPrompt \/ PromptLlm

PromptStart ==
    /\ LoopIdle /\ RetryIdle /\ RateIdle /\ DispatchIdle /\ InitIdle
    /\ PromptInit /\ ProviderIdle

PromptSpec == PromptStart /\ [][PromptNext]_vars

(***************************************************************************)
(* ConnectionManager.get_llm_provider, src/src/connection_manager.py:96-112 *)
(***************************************************************************)
\* line 103: for provider in ["anthropic", "openai"]
ProviderOrder == <<"anthropic", "openai">>

LlmProviders == {ProviderOrder[i] : i \in 1..Len(ProviderOrder)}

NothingProvided == [n |-> 0, provider |-> "None", how |-> "none", from |-> 0]

\* A manager with any of the two providers configured, each in any state
\* of connection and health; no provider is cached yet (line 23).
ProviderInit ==
    /\ \E N \in SUBSET LlmProviders :
          \E up \in [N -> BOOLEAN], ok \in [N -> BOOLEAN] :
             /\ connections = [n \in N |-> [is_connected |-> up[n],
                                             client |-> up[n] \/ ok[n]]]
             /\ healthy = ok
    /\ gpc = [c \in Callers |-> "idle"]
    /\ llm_lock = 0
    /\ llm_provider = "None"
    /\ epoch = 0
    /\ since = [c \in Callers |-> 0]
    /\ probed = [c \in Callers |-> <<>>]
    /\ provided = [c \in Callers |-> NothingProvided]
    /\ dpc = "" /\ has_actions = FALSE /\ request = NoRequest
    /\ kwargs = <<>> /\ capability = <<>> /\ returned = None /\ failed = 0

providerCfg == <<loopVars, retryVars, rateVars, dpc, has_actions, request,
                 kwargs, capability, returned, failed, initVars, promptVars>>

\* The service of a connection that has a client starts or stops answering
\* its health check (without a client the check fails: its probe raises).
HealthChanges(n) ==
    /\ n \in DOMAIN connections
    /\ connections[n].client
    /\ epoch < MaxChanges
    /\ epoch' = epoch + 1
    /\ healthy' = [healthy EXCEPT ![n] = ~@]
    /\ UNCHANGED <<providerCfg, connections, gpc, llm_lock, llm_provider,
                   since, probed, provided>>

\* shutdown() of a connection: the client is cleared, so that its health
\* check fails from now on, and is_connected is False.
ProviderShutdown(n) ==
    /\ n \in DOMAIN connections
    /\ connections[n].is_connected
    /\ epoch < MaxChanges
    /\ epoch' = epoch + 1
    /\ connections' = [connections EXCEPT ![n] = NotInitialized]
    /\ healthy' = [healthy EXCEPT ![n] = FALSE]
    /\ UNCHANGED <<providerCfg, gpc, llm_lock, llm_provider, since, probed,
                   provided>>

\* The calls of get_llm_provider made so far by the callers 1..k.
RECURSIVE Lookups(_)
Lookups(k) ==
    IF k = 0 THEN 0
    ELSE provided[k].n + (IF gpc[k] = "idle" THEN 0 ELSE 1) + Lookups(k - 1)

\* A caller awaits get_llm_provider().
GetLlmProvider(c) ==
    /\ gpc[c] = "idle"
    /\ Lookups(NumCallers) < MaxLookups
    /\ gpc' = [gpc EXCEPT ![c] = "lock"]
    /\ UNCHANGED <<providerCfg, connections, llm_lock, llm_provider, healthy,
                   epoch, since, probed, provided>>

\* The lock taken by every caller at once.
LlmLockFree_NoMutex == TRUE

\* line 98: async with self._lock can be entered
LlmLockFree == llm_lock = 0

\* line 99: self._llm_provider and self._llm_provider.state.is_connected
CacheHit ==
    /\ llm_provider # "None"
    /\ connections[llm_provider].is_connected

\* The value handed to caller c, the call being over.
Provides(c, p, h, e) ==
    [provided EXCEPT ![c] = [n |-> @.n + 1, provider |-> p, how |-> h,
                             from |-> e]]

\* lines 98-100: the lock is taken; with a connected cached provider the
\* call returns it at once, otherwise it goes on to the health checks.
Enter(c) ==
    /\ gpc[c] = "lock"
    /\ LlmLockFree
    /\ IF CacheHit
       THEN /\ provided' = Provides(c, llm_provider, "cached", epoch)
            /\ gpc' = [gpc EXCEPT ![c] = "idle"]
            /\ llm_lock' = 0
            /\ since' = since
       ELSE /\ provided' = provided
            /\ gpc' = [gpc EXCEPT ![c] = "probe"]
            /\ llm_lock' = c
            /\ since' = [since EXCEPT ![c] = epoch]
    /\ probed' = probed
    /\ UNCHANGED <<providerCfg, connections, llm_provider, healthy, epoch>>

\* lines 103-109: the next provider of the order: skipped when it is not
\* configured, returned and cached when its health check succeeds.
Probe(c) ==
    /\ gpc[c] = "probe"
    /\ Len(probed[c]) < Len(ProviderOrder)
    /\ LET p == ProviderOrder[Len(probed[c]) + 1] IN
         IF p \in DOMAIN connections /\ healthy[p]
         THEN /\ llm_provider' = p
              /\ provided' = Provides(c, p, "probed", since[c])
              /\ gpc' = [gpc EXCEPT ![c] = "idle"]
              /\ llm_lock' = 0
              /\ probed' = [probed EXCEPT ![c] = <<>>]
              /\ since' = [since EXCEPT ![c] = 0]
         ELSE /\ probed' = [probed EXCEPT ![c] = Append(@,
                    [provider |-> p,
                     result   |-> IF p \in DOMAIN connections
                                  THEN "False" ELSE "absent"])]
              /\ UNCHANGED <<llm_provider, provided, gpc, llm_lock, since>>
    /\ UNCHANGED <<providerCfg, connections, healthy, epoch>>

\* lines 111-112: no provider of the order passed: return None.
NoProvider(c) ==
    /\ gpc[c] = "probe"
    /\ Len(probed[c]) = Len(ProviderOrder)
    /\ provided' = Provides(c, "None", "probed", since[c])
    /\ gpc' = [gpc EXCEPT ![c] = "idle"]
    /\ llm_lock' = 0
    /\ probed' = [probed EXCEPT ![c] = <<>>]
    /\ since' = [since EXCEPT ![c] = 0]
    /\ UNCHANGED <<providerCfg, connections, llm_provider, healthy, epoch>>

ProviderNext ==
    \/ \E n \in LlmProviders : HealthChanges(n) \/ ProviderShutdown(n)
    \/ \E c \in Callers :
          \/ GetLlmProvider(c)
          \/ Enter(c)
          \/ Probe(c)
          \/ NoProvider(c)

ProviderStart ==
    /\ LoopIdle /\ RetryIdle /\ RateIdle /\ InitIdle /\ PromptIdle
    /\ ProviderInit

ProviderSpec == ProviderStart /\ [][ProviderNext]_vars

(***************************************************************************)
(* Properties of the agent loop                                            *)
(***************************************************************************)

\* A call is issued by this step, in the iteration that drew `name`.
Issues(name) == action_name = name /\ Len(calls') > Len(calls)

\* C1: in an iteration that drew post-tweet, a call (text generation, the
\* post) is issued only when now - last_tweet_time >= tweet_interval; when
\* the interval has not elapsed the iteration issues no call.
C1_PostOnlyAfterInterval ==
    [][Issues("post-tweet") => now - last_tweet_time >= tweet_interval]_vars

\* A second post is about to be sent: the gate let it through after an
\* earlier post had set last_tweet_time.
C1_Witness ==
    /\ pc = "post_send"
    /\ action_name = "post-tweet"
    /\ last_tweet_time > 0
    /\ now - last_tweet_time >= tweet_interval
    /\ Called("generate-text")

\* C2: no exception raised inside an iteration ends the loop: the loop is
\* left only through KeyboardInterrupt, and after a failed iteration (one
\* that raised, or one that ended without success) the next iteration starts
\* unless the loop is stopped.
C2_FailureNeverEndsLoop ==
    /\ [][InLoop => (InLoop' \/ (pc' = "stopped" /\ interrupted' # ""))]_vars
    /\ (pc \in {"handler", "img_except", "cooldown"})
           ~> (pc = "top" \/ pc = "stopped")

\* An iteration raised and the next one has started.
C2_Witness ==
    /\ pc = "replenish"
    /\ last.how = "raised"
    /\ interrupted = ""

\* C3: after each iteration the agent sleeps loop_delay if the action
\* succeeded and the 60 s fallback delay otherwise (failed or skipped); no
\* other duration.
C3_CooldownIsLoopDelayOrFallback ==
    last.how # "none" =>
        last.slept = IF last.how = "success" THEN loop_delay
                                             ELSE FallbackDelay

\* C4: an iteration that raised is followed by the fallback delay (60 s),
\* as an iteration whose success is false is, not by loop_delay.
C4_RaisedIterationTakesFallback ==
    last.how = "raised" => last.slept = FallbackDelay

\* C5: post-tweet drawn with the interval not elapsed: the step goes straight
\* back to the head of the loop, no time passes (no cooldown sleep, neither
\* loop_delay nor the fallback delay) and no error handler is entered.
C5_IneligiblePostSkipsCooldown ==
    [][(pc = "post_gate" /\ now - last_tweet_time < tweet_interval
            /\ interrupted' = "")
        => (pc' = "top" /\ now' = now /\ last' = Ended("continue", 0)
            /\ calls' = calls)]_vars

\* The gate of post-tweet was closed and the iteration is over.
C5_Witness ==
    /\ pc = "top"
    /\ action_name = "post-tweet"
    /\ last = Ended("continue", 0)
    /\ now - last_tweet_time < tweet_interval
    /\ calls = <<>>

\* C6: KeyboardInterrupt raised at any position of the running loop stops
\* the loop (no `except Exception` swallows it), and once stopped the agent
\* issues no call and changes nothing.
C6_InterruptStopsLoop ==
    /\ [](interrupted \notin {"", "setup", "countdown"} => pc = "stopped")
    /\ [][pc = "stopped" => UNCHANGED vars]_vars

\* The interrupt came while the image tweet was being posted.
C6_Witness ==
    /\ pc = "stopped"
    /\ interrupted = "img_send"
    /\ Called("post-tweet-with-media")

(***************************************************************************)
(* Properties of the retry wrapper                                         *)
(***************************************************************************)

\* The number of failed invocations of func in the caller's operation.
Failures(c) == Cardinality({ i \in 1..Len(invoked[c]) : ~invoked[c][i].ok })

Finished(c) == rpc[c] = "done" /\ outcome[c].kind # "none"

\* C7: with retry_attempts = N >= 1 func is invoked at most N times; the
\* wrapper returns the result of the first successful invocation, the k-th,
\* after exactly k invocations, and when all N invocations failed it raises
\* the last exception after exactly N invocations.
C7_RetryCountsAndResult ==
    \A c \in Callers :
        LET inv == invoked[c]
            n   == Len(inv)
        IN  /\ n <= retry_attempts
            /\ \A i \in 1..(n - 1) : ~inv[i].ok
            /\ (n >= 1 /\ inv[n].ok) =>
                   /\ Finished(c)
                   /\ outcome[c] = [kind |-> "returned", value |-> inv[n].value]
            /\ (n >= 1 /\ n = retry_attempts /\ ~inv[n].ok) =>
                   /\ Finished(c)
                   /\ outcome[c] = [kind |-> "raised", value |-> inv[n].value]
            /\ (Finished(c) /\ retry_attempts >= 1) =>
                   /\ n >= 1
                   /\ inv[n].ok \/ n = retry_attempts

\* fail, fail, succeed with N = 3: the result is returned after 3 calls.
C7_Witness ==
    \E c \in Callers :
        /\ retry_attempts = 3
        /\ Len(invoked[c]) = 3
        /\ ~invoked[c][1].ok /\ ~invoked[c][2].ok /\ invoked[c][3].ok
        /\ outcome[c] = [kind |-> "returned", value |-> "r1"]

\* C8: the delay slept after the k-th failed attempt, k = 1..N-1, is
\* retry_delay * k, and nothing is slept after the N-th failed attempt.
C8_LinearBackoff ==
    \A c \in Callers :
        /\ Failures(c) <= retry_attempts
        /\ Len(backoff[c]) =
               IF Failures(c) >= 1 /\ Failures(c) = retry_attempts
               THEN Failures(c) - 1
               ELSE Failures(c)
        /\ \A k \in 1..Len(backoff[c]) : backoff[c][k] = retry_delay * k

\* Three failed attempts with N = 3: two sleeps, then the exception.
C8_Witness ==
    \E c \in Callers :
        /\ retry_attempts = 3
        /\ retry_delay = 3
        /\ Failures(c) = 3
        /\ outcome[c].kind = "raised"
        /\ backoff[c] = <<3, 6>>

\* C9: a failed attempt adds one to error_count and stores its message in
\* last_error, a successful attempt sets error_count to 0; error_count is
\* the number of failed attempts since the latest successful one.
C9_ErrorCountTracksFailures ==
    /\ [](error_count = fails_since_ok)
    /\ [][\A c \in Callers :
            Len(invoked'[c]) = Len(invoked[c]) + 1 =>
                LET o == invoked'[c][Len(invoked'[c])]
                IN  IF o.ok
                    THEN error_count' = 0
                    ELSE /\ error_count' = error_count + 1
                         /\ last_error' = o.value]_vars

\* One caller's success came between the failures of another.
C9_Witness ==
    \E c, d \in Callers :
        /\ c # d
        /\ Failures(c) = 3
        /\ outcome[d].kind = "returned"
        /\ error_count = 1
        /\ last_error = TooLong
(***************************************************************************)
(* Properties of the rate limiter                                          *)
(***************************************************************************)
WindowTicks == WindowSeconds * TicksPerSecond

\* The calls let through before the j-th one, at a time inside the
\* 60-second window that starts at w.
AdmittedInWindow(j, w) ==
    { i \in 1..(j - 1) : admitted[i].at >= w /\ admitted[i].at < w + WindowTicks }

\* C10: once rate_limit_rpm calls have been let through within the current
\* 60-second window (the one that starts at _last_request_time), the next
\* call is let through only when that window is over, i.e. 60 seconds or
\* more after its start.
C10_QuotaBlocksUntilRollover ==
    \A j \in 1..Len(admitted) :
        LET e == admitted[j] IN
            (/\ e.window # -1
             /\ Cardinality(AdmittedInWindow(j, e.window)) >= rate_limit_rpm)
            => e.at >= e.window + WindowTicks

\* rate_limit_rpm = 2 and three calls issued at t = 0: the third one was
\* blocked and is let through at t = 60.
C10_Witness ==
    /\ rate_limit_rpm = 2
    /\ Len(admitted) = 3
    /\ \A j \in 1..3 : admitted[j].issued = 0
    /\ admitted[1].at = 0
    /\ admitted[2].at = 0
    /\ admitted[3].window = 0
    /\ admitted[3].at = WindowTicks

\* The calls let through at the time t or less than 60 seconds after it.
AdmittedFrom(t) ==
    { i \in 1..Len(admitted) : admitted[i].at >= t /\ admitted[i].at < t + WindowTicks }

\* C11: the limiter is a sliding window: any interval of 60 seconds, here
\* every one that starts with a call let through, holds at most
\* rate_limit_rpm calls let through.
C11_SlidingWindow ==
    \A j \in 1..Len(admitted) :
        Cardinality(AdmittedFrom(admitted[j].at)) <= rate_limit_rpm

\* The calls that were counted in the window that started at w.
CountedIn(w) == { i \in 1..Len(admitted) : admitted[i].start = w }

\* C12: _rate_limit_lock has one holder at most, no increment of
\* _request_count is lost (it is the number of calls counted in the current
\* window) and no window counts more than rate_limit_rpm calls, whatever
\* the interleaving of the callers.
C12_MutexKeepsCountAndQuota ==
    /\ Cardinality({c \in Callers : mpc[c] = "sleep"}) <= 1
    /\ request_count = Cardinality(CountedIn(last_request))
    /\ \A j \in 1..Len(admitted) :
          Cardinality(CountedIn(admitted[j].start)) <= rate_limit_rpm

\* Two callers were in _manage_rate_limit at once: one slept holding the
\* lock while the other waited for it, and both were counted afterwards.
C12_Witness ==
    /\ Len(admitted) >= 2
    /\ \E c \in Callers :
          /\ mpc[c] = "lock"
          /\ issued[c] >= admitted[Len(admitted)].issued
          /\ issued[c] < admitted[Len(admitted)].at
    /\ rate_lock = 0
    /\ admitted[Len(admitted)].window # admitted[Len(admitted)].start
    /\ admitted[Len(admitted)].issued < admitted[Len(admitted)].at
    /\ request_count = 1

\* A step that starts a new window after an earlier one.
WindowRestarts == last_request # -1 /\ last_request' # last_request

\* C34: with rate_limit_rpm >= 1, once a call has gone through
\* _manage_rate_limit the counter is between 1 and rate_limit_rpm; it goes
\* back to 1 only in a step that starts a new window, and such a step is
\* taken 60 seconds or more after the start of the window it ends (at once,
\* or at the end of the limiter's sleep); any other step leaves the counter
\* or adds one to it.
C34_CounterWithinQuota ==
    /\ [](Len(admitted) >= 1 =>
             (1 <= request_count /\ request_count <= rate_limit_rpm))
    /\ [][WindowRestarts =>
             /\ request_count' = 1
             /\ clock' - last_request >= WindowTicks]_vars
    /\ [][~WindowRestarts =>
             request_count' \in {request_count, request_count + 1}]_vars

\* rate_limit_rpm = 2: two calls filled a window, the third started a new
\* one and the fourth brought the counter back to the quota.
C34_Witness ==
    /\ rate_limit_rpm = 2
    /\ Len(admitted) = 4
    /\ admitted[2].start = admitted[1].start
    /\ admitted[3].window = admitted[1].start
    /\ admitted[3].start # admitted[3].window
    /\ admitted[4].start = admitted[3].start
    /\ request_count = 2

(***************************************************************************)
(* Properties of ConnectionManager.perform_action                          *)
(***************************************************************************)
\* The call that has just started invoked the capability.
Invokes == Len(capability') = Len(capability) + 1

\* The four conditions on a request r, each stated on the manager's data.
IsKnown(r) == r.connection_name \in DOMAIN connections
IsConnected(r) == IsKnown(r) /\ connections[r.connection_name].is_connected
IsRegistered(r) ==
    /\ IsConnected(r)
    /\ has_actions
    /\ r.action_name \in DOMAIN Registry(r.connection_name)
IsSupplied(r) ==
    /\ IsRegistered(r)
    /\ Len(r.params) >= Cardinality(
          { i \in 1..Len(Registry(r.connection_name)[r.action_name]) :
              Registry(r.connection_name)[r.action_name][i].required })

\* C13: perform_action invokes the capability only if the name is known,
\* the connection is connected, the action is registered and enough params
\* are supplied; the checks are made in this order (the call ends at the
\* first one that fails), and a call that fails one invokes nothing.
C13_InvokedOnlyAfterFourChecks ==
    [][(dpc = "idle" /\ dpc' # "idle") =>
          /\ Invokes => IsSupplied(request')
          /\ ~IsSupplied(request') => capability' = capability
          /\ failed' = (IF ~IsKnown(request') THEN 1
                        ELSE IF ~IsConnected(request') THEN 2
                        ELSE IF ~IsRegistered(request') THEN 3
                        ELSE IF ~IsSupplied(request') THEN 4 ELSE 0)]_vars

\* reply-to-tweet with its two required params on the connected twitter
\* connection reached the capability.
C13_Witness ==
    /\ dpc = "awaiting"
    /\ request.action_name = "reply-to-tweet"
    /\ Len(capability) = 1
    /\ capability[1].kwargs = [tweet_id |-> "p1", message |-> "p2"]
    /\ connections["twitter"].is_connected

\* The failure each check stands for.
ErrorKind(check) ==
    CASE check = 1 -> "UnknownConnectionKind"
      [] check = 2 -> "NotConnected"
      [] check = 3 -> "UnknownAction"
      [] OTHER     -> "MissingParameter"

\* C14: a call that fails one of the four checks hands its caller a failure
\* of the kind of that check, not a normal return value.
C14_ViolationSurfacedAsFailure ==
    (dpc = "done" /\ failed # 0) =>
        returned = [kind |-> "raise", value |-> ErrorKind(failed)]

\* C15: when the four checks pass and the capability returns a value, the
\* call returns exactly that value.
C15_ResultPassedThrough ==
    (dpc = "done" /\ failed = 0
        /\ capability[Len(capability)].outcome.kind = "return")
    => returned = capability[Len(capability)].outcome

C15_Witness ==
    /\ dpc = "done"
    /\ failed = 0
    /\ capability[Len(capability)].outcome = Return("r1")
    /\ returned = Return("r1")

\* C16: when the capability (the external call behind the retry wrapper)
\* raises, the call raises to its caller: the failure is not turned into a
\* normal result.
C16_ExhaustedFailureReachesExecutor ==
    (dpc = "done" /\ failed = 0
        /\ capability[Len(capability)].outcome.kind = "raise")
    => returned.kind = "raise"

(***************************************************************************)
(* Properties of the buffered timeline                                     *)
(***************************************************************************)
\* s is the sequence t with k elements dropped at its front and some
\* appended at its back.
FifoStep(t, s, k) ==
    /\ Len(t) >= k
    /\ Len(s) >= Len(t) - k
    /\ \A i \in 1..(Len(t) - k) : s[i] = t[i + k]

\* The reply or like branch runs (it is not cut short by an interrupt).
AtBuffer == pc \in {"reply", "like"} /\ pc' # "stopped"

\* C18: the buffer is a FIFO queue.  Reply and like take a post only when
\* the buffer is not empty, it is the front one, and it leaves the buffer;
\* with an empty buffer they go to the cooldown without a call.  Whatever
\* the step, the buffer changes by dropping its front and by appending at
\* its back posts that were never buffered before, so the posts leave in
\* the order they came in and none is taken twice.
C18_BufferIsFifo ==
    /\ [][AtBuffer =>
             IF HasBuffered
             THEN /\ tweet' = Head(timeline)
                  /\ timeline' = Tail(timeline)
             ELSE /\ timeline' = timeline
                  /\ tweet' = tweet
                  /\ pc' = "cooldown"]_vars
    /\ [][/\ FifoStep(timeline, timeline',
                      IF AtBuffer /\ HasBuffered THEN 1 ELSE 0)
          /\ \A i \in 1..Len(timeline') :
                (\A j \in 1..Len(timeline) : timeline[j] # timeline'[i])
                => timeline'[i].n > fetched]_vars
    /\ [](\A i, j \in 1..Len(timeline) :
             /\ timeline[i].n <= fetched
             /\ i < j => timeline[i].n < timeline[j].n)

\* The second post handed out is taken after the first, and the buffer is
\* empty again.
C18_Witness ==
    /\ pc \in {"like_send", "reply_gen"}
    /\ tweet.n = 2
    /\ fetched = 2
    /\ timeline = <<>>
    /\ timeline_set

(***************************************************************************)
(* Properties of the reply to the agent's own post                         *)
(***************************************************************************)
\* The iteration that popped the agent's own post ends normally.
OwnPostHandled == pc = "reply_own" /\ pc' = "top"

\* C19: when the popped post is the agent's own, the replies of that post
\* (its id) are requested and at most own_tweet_replies_count of them are
\* appended, in order, at the back of the buffer: the buffer grows by
\* min(number of replies returned, own_tweet_replies_count) and keeps the
\* elements it had in their order.
C19_OwnPostEnqueuesItsReplies ==
    [][OwnPostHandled =>
          /\ calls' = Append(calls, Call("get-tweet-replies", <<"tweet.id">>))
          /\ Len(timeline') = Len(timeline)
                + Min(fetched' - fetched, own_tweet_replies_count)
          /\ FifoStep(timeline, timeline', 0)]_vars

\* C20: the iteration that popped the agent's own post and did not raise
\* generates no text, posts no reply and ends as a success: it is followed
\* by the sleep of loop_delay.
C20_OwnPostCountsAsSuccess ==
    (/\ pc = "top"
     /\ action_name = "reply-to-tweet"
     /\ tweet.hasId /\ tweet.own
     /\ last.how \notin {"none", "raised"})
    => /\ ~Called("generate-text")
       /\ ~Called("reply-to-tweet")
       /\ last = Ended("success", loop_delay)

(***************************************************************************)
(* Properties of the replenishment                                         *)
(***************************************************************************)
\* C21: reply or like drawn with the buffer empty or absent at the start of
\* the iteration: read-timeline was called and its result stored before the
\* pop is attempted; with the buffer still empty the iteration is a no-op:
\* nothing is popped, no call is made and the step goes to the cooldown,
\* not to the error handler.
C21_FetchBeforePop ==
    /\ []((pc \in {"reply", "like"} /\ ~Called("read-timeline")) => HasBuffered)
    /\ [][(pc = "replenish" /\ NeedsReplenish /\ pc' = "choose") =>
             /\ calls' = Append(calls, Call("read-timeline", <<>>))
             /\ Len(timeline') = fetched' - fetched
             /\ \A i \in 1..Len(timeline') : timeline'[i].n > fetched]_vars
    /\ [][(AtBuffer /\ ~HasBuffered) =>
             /\ Called("read-timeline")
             /\ pc' = "cooldown"
             /\ calls' = calls
             /\ tweet' = tweet
             /\ timeline' = timeline]_vars

\* Like or reply was drawn, the fetch of this iteration brought nothing and
\* the iteration went to its cooldown with that one call.
C21_Witness ==
    /\ pc = "cooldown"
    /\ action_name \in {"reply-to-tweet", "like-tweet"}
    /\ calls = <<Call("read-timeline", <<>>)>>
    /\ ~HasBuffered
    /\ tweet = NoTweet

\* The reply or the like of the iteration that has just ended was tried on
\* the post `tweet` and did not succeed.
ConsumptionFailed ==
    /\ pc = "top"
    /\ last.how \in {"nosuccess", "raised"}
    /\ action_name \in {"reply-to-tweet", "like-tweet"}
    /\ tweet.hasId
    /\ ~success
    /\ Called("generate-text") \/ Called("like-tweet")

\* C22: a pop is committed only when the post was consumed: after a reply
\* or like that failed, the post taken for it is still the front of the
\* buffer at the start of the next iteration.
C22_PopCommittedAfterConsumption ==
    ConsumptionFailed => (HasBuffered /\ Head(timeline) = tweet)

(***************************************************************************)
(* Properties of the post                                                  *)
(***************************************************************************)
\* The call that has just been logged is a (plain or image) post that
\* returned the posted tweet.
Posted ==
    /\ Len(calls') = Len(calls) + 1
    /\ calls'[Len(calls')] \in
          { Answered("post-tweet", <<"tweet_text">>, "tweet"),
            Answered("post-tweet-with-media",
                     <<"tweet_text", "image_url">>, "tweet") }

\* C23: last_tweet_time changes only in the step in which a post, plain or
\* with image, was performed successfully: text was generated before it,
\* last_tweet_time becomes the time read at the gate and the iteration is a
\* success (its sleep is loop_delay).  Any other step (reply, like, closed
\* gate, empty text, a post that failed) leaves last_tweet_time unchanged.
C23_LastPostTimeOnlyOnSuccessfulPost ==
    [][last_tweet_time' # last_tweet_time =>
          /\ Posted
          /\ Called("generate-text")
          /\ last_tweet_time' = current_time
          /\ success'
          /\ pc' = "cooldown"]_vars

\* The actions of the calls of this iteration, the fetch at its head left
\* out.
ActionsCalled ==
    LET cs == IF calls # <<>> /\ calls[1].action = "read-timeline"
              THEN Tail(calls) ELSE calls
    IN  [i \in 1..Len(cs) |-> cs[i].action]

ImageChain == <<"generate-text", "generate-image", "generate-text",
                "post-tweet-with-media">>

InIteration ==
    pc \notin {"setup", "countdown", "top", "stopped", "aborted"}

\* C25: an agent with an empty task list or with weights that are all zero
\* never starts its loop: no iteration is executed.
C25_InvalidTasksNeverLoop ==
    (Len(tasks) = 0 \/ TotalWeight(tasks) = 0) => ~InIteration

\* The configured tasks of positive weight.
Positive == { i \in 1..Len(tasks) : tasks[i].weight > 0 }

\* C26: an iteration draws once at most, and what it draws is a configured
\* task of strictly positive weight: a task of weight 0 is never drawn and
\* each task of positive weight can be.
C26_DrawIsPositiveWeightTask ==
    /\ [](action_name # "" =>
             \E i \in Positive : tasks[i].name = action_name)
    /\ [][action_name' # action_name =>
             \/ pc = "top" /\ action_name' = ""
             \/ pc = "choose" /\ action_name = ""]_vars
    /\ [](pc = "choose" =>
             \A i \in Positive :
                ENABLED (Choose /\ action_name' = tasks[i].name))

\* like-tweet (weight 2) was drawn from a list whose first task has
\* weight 0.
C26_Witness ==
    /\ pc = "like"
    /\ action_name = "like-tweet"
    /\ Len(tasks) = 3
    /\ tasks[1].weight = 0

(***************************************************************************)
(* Properties of the loop as a whole                                       *)
(***************************************************************************)
SocialActions == {"post-tweet", "post-tweet-with-media", "reply-to-tweet",
                  "like-tweet"}

\* C27: the loop is sequential.  An iteration performs one social action
\* at most, the one of the task it drew; calls are issued one at a time, by
\* a step inside the body of the iteration, and the log of an iteration is
\* cleared only at the head of the next one.
C27_OneActionPerIteration ==
    /\ [](Cardinality({ i \in 1..Len(calls) :
                          calls[i].action \in SocialActions }) <= 1)
    /\ [](\A i \in 1..Len(calls) :
             calls[i].action \in SocialActions =>
                calls[i].action = IF action_name = "post-image-tweet"
                                  THEN "post-tweet-with-media"
                                  ELSE action_name)
    /\ [][calls' # calls =>
             \/ pc = "top" /\ calls' = <<>>
             \/ /\ InIteration
                /\ Len(calls') = Len(calls) + 1
                /\ SubSeq(calls', 1, Len(calls)) = calls]_vars

\* An iteration generated a text and posted one reply.
C27_Witness ==
    /\ pc = "cooldown"
    /\ success
    /\ ActionsCalled = <<"generate-text", "reply-to-tweet">>

(***************************************************************************)
(* Properties of the pace of the loop                                      *)
(***************************************************************************)
\* C35: the loop does not spin: when a task is about to be drawn in an
\* iteration that is not the first, the iteration before it has ended with
\* a sleep, of loop_delay or of 60 s, however it went (ineligible post,
\* popped post without id and popped own post included).
C35_SleepBetweenSelections ==
    (pc = "choose" /\ last.how # "none") =>
        /\ last.slept \in {loop_delay, FallbackDelay}
        /\ last.slept > 0

(***************************************************************************)
(* Properties of the replenishment as the first step of an iteration       *)
(***************************************************************************)
\* The read-timeline calls of the iteration.
Fetches == { i \in 1..Len(calls) : calls[i].action = "read-timeline" }

\* C36: the replenishment check is the first step of every iteration and
\* comes before the draw, whatever is drawn: the draw is reached from the
\* check only, with read-timeline called if the buffer is empty or absent
\* then; read-timeline is called once per iteration at most, from the check
\* and only with the buffer empty or absent; and when that call raises, the
\* iteration ends with no task drawn and no other call.
C36_ReplenishmentFirst ==
    /\ [](Cardinality(Fetches) <= 1)
    /\ []((pc = "choose" /\ (~timeline_set \/ Len(timeline) = 0))
             => Fetches = {1})
    /\ [][pc' = "choose" => pc = "replenish"]_vars
    /\ [][Len(calls') > Len(calls)
             /\ calls'[Len(calls')].action = "read-timeline"
          => /\ pc = "replenish"
             /\ ~timeline_set \/ Len(timeline) = 0
             /\ calls = <<>>
             /\ action_name = ""]_vars
    /\ [][(pc = "replenish" /\ pc' = "handler")
          => /\ action_name' = ""
             /\ Len(calls') = 1]_vars
    /\ [][pc = "handler"
          => /\ calls' = calls
             /\ action_name' = action_name
             /\ pc' \in {"top", "stopped"}]_vars

\* The fetch raised (the draw cannot raise with these tasks): the iteration
\* is over, nothing was drawn and read-timeline is its only call.
C36_Witness ==
    /\ pc = "top"
    /\ Choices(tasks) # {}
    /\ last.how = "raised"
    /\ action_name = ""
    /\ Len(calls) = 1
    /\ Fetches = {1}

(***************************************************************************)
(* Properties of the retry wrapper around post and reply                   *)
(***************************************************************************)
\* C17: a post or reply whose text is longer than 280 characters is not
\* retried: its implementation is attempted exactly once, the error is
\* raised at once and no backoff is slept.
C17_ValidationFailureNotRetried ==
    \A c \in Callers :
        (\E i \in 1..Len(invoked[c]) : invoked[c][i] = Failure(TooLong))
        => /\ Len(invoked[c]) = 1
           /\ backoff[c] = <<>>
           /\ outcome[c] = [kind |-> "raised", value |-> TooLong]

(***************************************************************************)
(* Properties of the connection lock                                       *)
(***************************************************************************)
\* The callers whose func is executing.
Executing == { c \in Callers : rpc[c] = "call" }

\* C33: at most one wrapped call of a connection executes at a time: a
\* caller holds the connection lock as long as its attempt lasts, and has
\* released it when it sleeps between attempts, so that a waiting caller can
\* start its attempt during that sleep.
C33_OneAttemptAtATime ==
    /\ Cardinality(Executing) <= 1
    /\ \A c \in Callers :
          /\ rpc[c] = "call" <=> lock = c
          /\ (rpc[c] = "sleep" /\ Executing = {}) =>
                \A d \in Callers : rpc[d] = "acquire" => ENABLED Acquire(d)

\* One caller sleeps after its first failed attempt while the attempt of
\* another is executing.
C33_Witness ==
    \E c, d \in Callers :
       /\ rpc[c] = "sleep"
       /\ Len(invoked[c]) = 1
       /\ rpc[d] = "call"
       /\ lock = d

(***************************************************************************)
(* Properties of the validation as a read-only function                    *)
(***************************************************************************)
\* The check at which validation of request r ends in the present state of
\* the manager (0: it passes).
Outcome(r) ==
    IF ~IsKnown(r) THEN 1
    ELSE IF ~IsConnected(r) THEN 2
    ELSE IF ~IsRegistered(r) THEN 3
    ELSE IF ~IsSupplied(r) THEN 4 ELSE 0

\* C29: validation only reads: the step that validates a request leaves
\* the connection table, the connections' state and the registry as they
\* were, so validating the same arguments again, with nothing changed in
\* between, ends at the same check as the first time.
C29_ValidationIsReadOnly ==
    /\ [][(dpc = "idle" /\ dpc' # "idle") =>
             /\ connections' = connections
             /\ has_actions' = has_actions
             /\ failed' = Outcome(request')]_vars
    /\ [](dpc \in {"awaiting", "done"} => failed = Outcome(request))

\* The second of two calls with identical arguments has passed validation
\* as the first did, and its connection is still connected.
C29_Witness ==
    /\ Len(capability) = 2
    /\ capability[1].connection = capability[2].connection
    /\ capability[1].action = capability[2].action
    /\ capability[1].kwargs = capability[2].kwargs
    /\ dpc = "awaiting"
    /\ failed = 0
    /\ connections[request.connection_name].is_connected

(***************************************************************************)
(* Properties of a connection that is shut down or not initialized         *)
(***************************************************************************)
\* C38: shutdown leaves the connection with is_connected false and no
\* client; as long as a connection is not connected, after a shutdown or
\* before any initialize, perform_action on it ends at the connected check
\* and invokes nothing; the flag comes back only with a client, by a
\* successful initialize.
C38_ShutDownConnectionRejects ==
    /\ [][\A n \in DOMAIN connections :
            (\/ connections[n].is_connected /\ ~connections'[n].is_connected
             \/ connections[n].client /\ ~connections'[n].client)
            => connections'[n] = [is_connected |-> FALSE, client |-> FALSE]
         ]_vars
    /\ [][\A n \in DOMAIN connections :
            (~connections[n].is_connected /\ connections'[n].is_connected)
            => (connections'[n].client /\ dpc = "idle" /\ dpc' = "idle")]_vars
    /\ [][(/\ dpc = "idle" /\ dpc' # "idle"
           /\ request'.connection_name \in DOMAIN connections
           /\ ~connections[request'.connection_name].is_connected)
          => /\ failed' = 2
             /\ dpc' = "done"
             /\ returned' = [kind |-> "return", value |-> "None"]
             /\ capability' = capability]_vars

\* twitter, which had served a call, was shut down: the next call on it
\* has ended at the connected check and the capability was not invoked.
C38_Witness ==
    /\ Len(capability) = 1
    /\ capability[1].connection = "twitter"
    /\ connections["twitter"] = [is_connected |-> FALSE, client |-> FALSE]
    /\ dpc = "done"
    /\ request.connection_name = "twitter"
    /\ failed = 2

(***************************************************************************)
(* Properties of ConnectionManager.initialize_all                          *)
(***************************************************************************)
\* C28: initialize_all starts the initialize() of all connections together
\* and returns when all of them have ended; whatever the others do (return
\* False, raise), a connection that is still initializing can end
\* connected; and the result is True exactly when every initialize()
\* returned True.
C28_InitializeAllJoinsAll ==
    /\ [][(ipc = "idle" /\ ipc' # "idle") =>
             \A n \in DOMAIN connections : inits'[n] = "running"]_vars
    /\ [](ipc = "done" =>
             /\ \A n \in DOMAIN connections : inits[n] \in InitOutcomes
             /\ init_success = "True" <=>
                   \A n \in DOMAIN connections : inits[n] = "True")
    /\ [](\A n \in DOMAIN connections :
             /\ inits[n] = "True" => connections[n].is_connected
             /\ inits[n] = "running" => ENABLED InitializeStep(n)
             /\ inits[n] = "verifying" =>
                   ENABLED (InitializeEnds(n) /\ connections'[n].is_connected))
    /\ [](ipc # "done" => init_success = "None")

\* Three connections: one raised, one returned False, the third is
\* connected; initialize_all returned False.
C28_Witness ==
    /\ ipc = "done"
    /\ DOMAIN connections = ConnectionTypes
    /\ inits["twitter"] = "raised"
    /\ inits["openai"] = "False"
    /\ inits["anthropic"] = "True"
    /\ connections["anthropic"].is_connected
    /\ init_success = "False"

(***************************************************************************)
(* Properties of the prompt of a reply                                     *)
(***************************************************************************)
\* C30: the prompt of a reply follows the hostility tier of the text that
\* is replied to: intensity 0.7 and above is the maximum tier, 0.4 up to
\* 0.7 the strong tier, a lower positive intensity the mild tier, and a
\* neutral text has the plain template; two texts of different tiers get
\* different user prompt templates and different system prompts.
C30_PromptFollowsHostilityTier ==
    LET Tier(i) == IF i >= 7 THEN "maximum"
                   ELSE IF i >= 4 THEN "strong"
                   ELSE IF i > 0 THEN "mild" ELSE "neutral"
    IN  \A a, b \in 1..Len(prompts) :
           Tier(prompts[a].post.intensity) # Tier(prompts[b].post.intensity)
              => /\ prompts[a].prompt.template # prompts[b].prompt.template
                 /\ prompts[a].system_prompt # prompts[b].system_prompt

C32_ConnectedOnlyIfHealthy ==
    \A n \in DOMAIN inits :
       /\ (connections[n].is_connected \/ inits[n] = "True")
             => health[n] = "True"
       /\ (health[n] = "False" /\ inits[n] \in {"True", "False"})
             => (inits[n] = "False" /\ ~connections[n].is_connected)

(***************************************************************************)
(* Properties of ConnectionManager.get_llm_provider                        *)
(***************************************************************************)
\* Caller c has found every provider of the order before position k not
\* configured or failing its health check.
PassedOver(c, k) ==
    /\ Len(probed[c]) >= k - 1
    /\ \A i \in 1..(k - 1) :
          /\ probed[c][i].provider = ProviderOrder[i]
          /\ probed[c][i].result =
                IF ProviderOrder[i] \in DOMAIN connections THEN "False"
                                                           ELSE "absent"

\* C37: get_llm_provider returns the cached provider while it is connected;
\* otherwise the first of anthropic, openai whose health check succeeds,
\* which becomes the cached one; and None when neither passes.  One caller
\* at a time is inside the lock, and calls made while nothing changes
\* return the same provider.
C37_ProviderIsUsable ==
    /\ [](Cardinality({ c \in Callers : gpc[c] = "probe" }) <= 1)
    /\ [](\A c \in Callers : gpc[c] = "probe" <=> llm_lock = c)
    /\ [](\A c, d \in Callers :
             (/\ provided[c].n >= 1 /\ provided[d].n >= 1
              /\ provided[c].from = epoch /\ provided[d].from = epoch)
             => provided[c].provider = provided[d].provider)
    /\ [][\A c \in Callers :
            provided'[c] # provided[c] =>
               LET p == provided'[c].provider
                   cached == /\ llm_provider # "None"
                             /\ connections[llm_provider].is_connected
               IN  /\ llm_lock \in {0, c}
                   /\ cached => (p = llm_provider /\ llm_provider' = p)
                   /\ (~cached /\ p # "None") =>
                         /\ p \in DOMAIN connections
                         /\ healthy[p]
                         /\ \E k \in 1..Len(ProviderOrder) :
                               ProviderOrder[k] = p /\ PassedOver(c, k)
                         /\ llm_provider' = p
                   /\ (~cached /\ p = "None") =>
                         /\ PassedOver(c, Len(ProviderOrder) + 1)
                         /\ llm_provider' = llm_provider]_vars

\* anthropic is configured and fails its health check: the second call of
\* a caller went through the health checks and returned openai, now the
\* cached provider, while the other caller is waiting for the lock.
C37_Witness ==
    \E c, d \in Callers :
       /\ provided[c].n = 2
       /\ provided[c].provider = "openai"
       /\ provided[c].how = "probed"
       /\ "anthropic" \in DOMAIN connections
       /\ ~healthy["anthropic"]
       /\ llm_provider = "openai"
       /\ gpc[d] = "lock"
       /\ provided[d].n = 0

====
